---- MODULE Spec2Model ----
(***************************************************************************)
(* Lane-graph navigation and agent simulation of yudono/gta:               *)
(* CarController (src/assets/js/car.js), NonPlayableCharacter              *)
(* (src/assets/js/npc.js) and BaseCharacter.checkCollision                 *)
(* (src/assets/js/character.js).                                           *)
(*                                                                         *)
(* Fixed-point units.  JavaScript numbers are modelled as integers:        *)
(*   lengths and coordinates   in tenths of a world unit   (1.2  -> 12)    *)
(*   progress along a lane     in thousandths              (0.03 -> 30)    *)
(*   speeds                    in thousandths of a unit/s  (3    -> 3000)  *)
(*   times (deltaTime, cooldown) in whole seconds                          *)
(*   Math.random()             in hundredths               (0.3  -> 30)    *)
(*   headings                  as the pair <<sin, cos>> of the angle,      *)
(*                             in thousandths                              *)
(***************************************************************************)
EXTENDS Integers, Sequences, FiniteSets, TLC

VARIABLES
    buildings,          \* this.buildings: the static obstacles (car.js:25, character.js:982)
    carTemplate,        \* CarController.carTemplate loaded (car.js:294)
    cars,               \* CarController.cars (car.js:8)
    spawnedStreetIds,   \* CarController.spawnedStreetIds (car.js:27)
    carClock,           \* CarController.clock (car.js:11): elapsed seconds, modulo ClockPeriod
    carLog,             \* history: what the last CarController call did to each car
    playerPos,          \* NonPlayableCharacter.playerModel.position, or NoPlayer
    isInitialized,      \* NonPlayableCharacter.isInitialized (npc.js:64)
    npcs,               \* NonPlayableCharacter.npcs (npc.js:9)
    usedSpawnStreetIds, \* npc.js:26
    occupiedStreetIds,  \* npc.js:28
    spawnTimer,         \* the delayed spawnAll of init is pending (npc.js:60)
    npcLog,             \* history: what the last NonPlayableCharacter call did
    ticks,              \* number of update calls made so far (capped)
    colQuery,           \* argument of the last checkCollision call under test
    colResult           \* its results

vars == <<buildings, carTemplate, cars, spawnedStreetIds, carClock, carLog, playerPos,
          isInitialized, npcs, usedSpawnStreetIds, occupiedStreetIds,
          spawnTimer, npcLog, ticks, colQuery, colResult>>

carVars == <<carTemplate, cars, spawnedStreetIds, carClock, carLog>>
npcVars == <<playerPos, isInitialized, npcs, usedSpawnStreetIds,
             occupiedStreetIds, spawnTimer, npcLog>>
colVars == <<colQuery, colResult>>

-----------------------------------------------------------------------------
(* Arithmetic helpers *)

Abs(n) == IF n < 0 THEN -n ELSE n

Max(a, b) == IF a >= b THEN a ELSE b

Min(a, b) == IF a <= b THEN a ELSE b

\* Math.floor(Math.random() * n) for a draw r given in hundredths
RandomIndex(r, n) == (r * n) \div 100

\* a * b for a progress value b given in thousandths
MulProgress(a, b) == (a * b) \div 1000

\* a / b on numbers, truncated towards zero
Quot(a, b) == IF (a < 0) = (b < 0) THEN Abs(a) \div Abs(b) ELSE -(Abs(a) \div Abs(b))

\* the integer part of the square root (Math.hypot, Math.sqrt)
RECURSIVE SqrtBetween(_, _, _)
SqrtBetween(n, lo, hi) ==
    IF lo >= hi THEN lo
    ELSE LET mid == (lo + hi + 1) \div 2
         IN IF mid * mid <= n THEN SqrtBetween(n, mid, hi)
                              ELSE SqrtBetween(n, lo, mid - 1)

ISqrt(n) == SqrtBetween(n, 0, 20000)

\* squared Euclidean distance; Math.hypot(dx, dz) < r  <=>  Dist2(dx, dz) < r * r
Dist2(dx, dz) == dx * dx + dz * dz

-----------------------------------------------------------------------------
(* Grid parameters (car.js:317-318, npc.js:69-70, car.js:20, npc.js:16) *)

gridSize == 40

blockSize == 150

laneWidth == 12

\* npc.js:73  sidewalkOffset = laneWidth * 4.0
sidewalkOffset == laneWidth * 4

StreetIndicesFromZero == SelectSeq([i \in 1..gridSize |-> i - 1], LAMBDA z : z % 3 = 0)

\* the row / column indices that carry a street: z % 3 === 1
StreetIndices == SelectSeq([i \in 1..gridSize |-> i - 1], LAMBDA z : z % 3 = 1)

\* (z - gridSize / 2) * blockSize
GridCoord(k) == ((2 * k - gridSize) * blockSize) \div 2

\* (gridSize * blockSize) / 2
HalfExtent == (gridSize * blockSize) \div 2

Lane(axis, k, tag, sx, sz, ex, ez, dir) ==
    [id |-> <<axis, k, tag>>, start |-> [x |-> sx, z |-> sz],
     end |-> [x |-> ex, z |-> ez], direction |-> dir, lane |-> tag]

\* the decimal digits of a grid index, as the template literal `${z}` writes it
DigitText(d) == <<"0", "1", "2", "3", "4", "5", "6", "7", "8", "9">>[d + 1]

RECURSIVE DecimalText(_)
DecimalText(n) ==
    IF n < 10 THEN <<DigitText(n)>> ELSE DecimalText(n \div 10) \o <<DigitText(n % 10)>>

LaneTagTextUnsuffixed(tag) ==
    CASE tag \in {"right", "right_sw"} -> <<"r", "i", "g", "h", "t">>
      [] tag \in {"left", "left_sw"} -> <<"l", "e", "f", "t">>
      [] tag \in {"down", "down_sw"} -> <<"d", "o", "w", "n">>
      [] tag \in {"up", "up_sw"} -> <<"u", "p">>

\* the characters of the lane tag at the end of an id
LaneTagText(tag) ==
    CASE tag = "right" -> <<"r", "i", "g", "h", "t">>
      [] tag = "left" -> <<"l", "e", "f", "t">>
      [] tag = "down" -> <<"d", "o", "w", "n">>
      [] tag = "up" -> <<"u", "p">>
      [] tag = "right_sw" -> <<"r", "i", "g", "h", "t", "_", "s", "w">>
      [] tag = "left_sw" -> <<"l", "e", "f", "t", "_", "s", "w">>
      [] tag = "down_sw" -> <<"d", "o", "w", "n", "_", "s", "w">>
      [] tag = "up_sw" -> <<"u", "p", "_", "s", "w">>

\* the id string `h_${z}_right` of a lane, as its sequence of characters
\* the model keeps an id as <<axis, index, tag>>
IdText(id) == <<id[1], "_">> \o DecimalText(id[2]) \o <<"_">> \o LaneTagText(id[3])

\* generateStreetNetwork: two opposite lanes per street row, then per column,
\* at the given offset from the centre line
HorizontalLanes(off, rightTag, leftTag) ==
    [n \in 1..(2 * Len(StreetIndices)) |->
        LET z == StreetIndices[(n + 1) \div 2]
            streetZ == GridCoord(z)
        IN IF n % 2 = 1
           THEN Lane("h", z, rightTag, -HalfExtent, streetZ - off,
                     HalfExtent, streetZ - off, "horizontal")
           ELSE Lane("h", z, leftTag, HalfExtent, streetZ + off,
                     -HalfExtent, streetZ + off, "horizontal")]

VerticalLanes(off, downTag, upTag) ==
    [n \in 1..(2 * Len(StreetIndices)) |->
        LET x == StreetIndices[(n + 1) \div 2]
            streetX == GridCoord(x)
        IN IF n % 2 = 1
           THEN Lane("v", x, downTag, streetX - off, -HalfExtent,
                     streetX - off, HalfExtent, "vertical")
           ELSE Lane("v", x, upTag, streetX + off, HalfExtent,
                     streetX + off, -HalfExtent, "vertical")]

\* CarController.streets after generateStreetNetwork
carStreets ==
    HorizontalLanes(laneWidth \div 2, "right", "left")
        \o VerticalLanes(laneWidth \div 2, "down", "up")

\* NonPlayableCharacter.streets after generateStreetNetwork
npcStreets ==
    HorizontalLanes(sidewalkOffset, "right_sw", "left_sw")
        \o VerticalLanes(sidewalkOffset, "down_sw", "up_sw")

carTolerance == 20

npcTolerance == 80

\* getConnectedStreets(x, z): ids of the lanes that pass through (x, z)
ConnectedStreets(streets, tolerance, x, z) ==
    LET passes(street) ==
            IF street.direction = "horizontal"
            THEN /\ Abs(street.start.z - z) < tolerance
                 /\ street.start.x <= x
                 /\ street.end.x >= x
            ELSE /\ Abs(street.start.x - x) < tolerance
                 /\ street.start.z <= z
                 /\ street.end.z >= z
        hit == SelectSeq(streets, passes)
    IN [n \in 1..Len(hit) |-> hit[n].id]

\* the intersection loop: x outer, z inner
Intersections(streets, tolerance) ==
    LET m == Len(StreetIndices)
    IN [n \in 1..(m * m) |->
           LET ix == GridCoord(StreetIndices[((n - 1) \div m) + 1])
               iz == GridCoord(StreetIndices[((n - 1) % m) + 1])
           IN [x |-> ix, z |-> iz,
               connectedStreets |-> ConnectedStreets(streets, tolerance, ix, iz)]]

carIntersections == Intersections(carStreets, carTolerance)

npcIntersections == Intersections(npcStreets, npcTolerance)

-----------------------------------------------------------------------------
(* Collision against static obstacles *)

carRadius == 12

characterRadius == 20

\* JavaScript truthiness of an optional numeric field: !b.f
Falsy(b, f) == f \notin DOMAIN b \/ b[f] = 0

\* b.f === undefined
IsUndefined(b, f) == f \notin DOMAIN b

\* CarController.checkCollision
CarCheckCollision(bs, pos) ==
    \E n \in 1..Len(bs) :
        LET b == bs[n] IN
        /\ ~(IsUndefined(b, "x") \/ IsUndefined(b, "z")
               \/ Falsy(b, "width") \/ Falsy(b, "depth"))
        /\ 2 * Abs(pos.x - b.x) < b.width + 2 * carRadius
        /\ 2 * Abs(pos.z - b.z) < b.depth + 2 * carRadius

\* BaseCharacter.checkCollision (inherited by NonPlayableCharacter and PlayerController)
CharacterCheckCollision(bs, pos) ==
    \E n \in 1..Len(bs) :
        LET b == bs[n] IN
        /\ ~(Falsy(b, "x") \/ Falsy(b, "z") \/ Falsy(b, "width") \/ Falsy(b, "depth"))
        /\ 2 * Abs(pos.x - b.x) < b.width + 2 * characterRadius
        /\ 2 * Abs(pos.z - b.z) < b.depth + 2 * characterRadius

-----------------------------------------------------------------------------
(* Movement helpers shared by both controllers *)

\* street.start + (street.end - street.start) * progress
LaneX(street, progress) ==
    street.start.x + MulProgress(street.end.x - street.start.x, progress)

LaneZ(street, progress) ==
    street.start.z + MulProgress(street.end.z - street.start.z, progress)

Sign(n) == IF n > 0 THEN 1 ELSE IF n < 0 THEN -1 ELSE 0

\* Math.atan2(dx, dz) for an axis-parallel vector, as <<sin, cos>> in thousandths
Atan2Axis(dx, dz) == <<1000 * Sign(dx), 1000 * Sign(dz)>>

\* angle + Math.PI
AddPi(h) == <<-h[1], -h[2]>>

\* the heading constants of npc.js: Math.PI / 2, -Math.PI / 2, Math.PI, 0
HalfPi == <<1000, 0>>

MinusHalfPi == <<-1000, 0>>

Pi == <<0, -1000>>

Zero == <<0, 1000>>

isValidTurnAcrossOnly(fromStreet, toStreet) == fromStreet.direction # toStreet.direction

\* isValidTurn (car.js:739, npc.js:631)
isValidTurn(fromStreet, toStreet) ==
    IF fromStreet.direction = toStreet.direction
    THEN fromStreet.lane # toStreet.lane
    ELSE TRUE

triggerRadius == 80

\* this.intersections.find(distance < 8): the first intersection in range, or none
NearbyIntersection(intersections, pos) ==
    LET hit == SelectSeq(intersections,
                   LAMBDA itx : Dist2(itx.x - pos.x, itx.z - pos.z)
                                    < triggerRadius * triggerRadius)
    IN IF Len(hit) = 0 THEN <<>> ELSE <<hit[1]>>

SeqIncludes(seq, v) == \E n \in 1..Len(seq) : seq[n] = v

SpliceNothing(seq, i) == seq

\* a loop that passes over the last of several agents
LastIndexButOne(seq) == IF Len(seq) > 1 THEN Len(seq) - 1 ELSE Len(seq)

\* the index update's loop starts from: `let i = this.cars.length - 1`
\* (car.js:608, npc.js:378), counted from 1
LastIndex(seq) == Len(seq)

\* Array.prototype.splice(i, 1)
Splice(seq, i) == [n \in 1..(Len(seq) - 1) |-> IF n < i THEN seq[n] ELSE seq[n + 1]]

-----------------------------------------------------------------------------
(* Inputs of the model: the clock and the random source *)

\* population target of the model (CarController.maxCars, car.js:14, is 20)
maxCars == 2

\* values returned by clock.getDelta(), in seconds
DeltaTimes == {1, 15}

\* number of update calls explored
MaxTicks == 4

\* the clock readings kept apart: elapsed time is kept modulo this many seconds
ClockPeriod == 2

\* values of Math.random(), in hundredths, for each use
TurnRolls == {10, 60}

PickRolls == {0, 50}

LaneRolls == {0}

SampleRolls == {0, 10}

SpeedRolls == {50}

\* one spawn call's draws: the lane, the first position sample, every later
\* position sample, the speed
SpawnDraws == [lane : LaneRolls, first : SampleRolls, rest : SampleRolls,
               speed : SpeedRolls]

\* the draws one agent may consume in one update
AgentDraws == [turn : TurnRolls, pick : PickRolls, spawn : SpawnDraws]

NpcLaneRolls == {0, 20, 72}

NpcSpawnDraws == [lane : NpcLaneRolls, first : SampleRolls, rest : SampleRolls]

NpcAgentDraws == [turn : TurnRolls, pick : PickRolls, spawn : NpcSpawnDraws]

-----------------------------------------------------------------------------
(* CarController *)

carSpeed == 3

carMinSpacing == 80

carSpawnAttempts == 10

carSpawnWindow == 300

carTurnChance == 30

windowLow == 400

windowHigh == 600

expiryProgress == 1200

blockedCooldown == 1

turnCooldownTime == 2

ProgressStepHalved(speed, dt) == (speed * dt) \div 200

\* progress gained in one tick: speed * deltaTime * 0.01
ProgressStep(speed, dt) == (speed * dt) \div 100

NoSpawn == <<>>

\* the sampling loop of spawnCar (car.js:494-522); attempts = samples drawn so far
RECURSIVE CarSampleLoop(_, _, _, _, _)
CarSampleLoop(street, existing, d, attempts, rejected) ==
    LET r == IF attempts = 0 THEN d.first ELSE d.rest
        progress == (r * carSpawnWindow) \div 100
        test == [x |-> LaneX(street, progress), z |-> LaneZ(street, progress)]
        spaced == \A n \in 1..Len(existing) :
                     ~(Dist2(existing[n].x - test.x, existing[n].z - test.z)
                          < carMinSpacing * carMinSpacing)
        validPosition == spaced /\ ~CarCheckCollision(buildings, test)
    IN IF validPosition
       THEN [valid |-> TRUE, progress |-> progress, attempts |-> attempts + 1,
             rejected |-> rejected]
       ELSE IF attempts + 1 < carSpawnAttempts
            THEN CarSampleLoop(street, existing, d, attempts + 1, rejected \cup {test})
            ELSE [valid |-> FALSE, progress |-> progress, attempts |-> attempts + 1,
                  rejected |-> rejected \cup {test}]

\* the car spawnCar creates (car.js:524-596)
NewCar(street, progress, speedRoll) ==
    [currentStreet |-> street,
     speed |-> carSpeed * (800 + (speedRoll * 400) \div 100),
     progress |-> progress,
     isAtIntersection |-> FALSE,
     turnCooldown |-> 0,
     x |-> LaneX(street, progress),
     z |-> LaneZ(street, progress),
     rotation |-> AddPi(Atan2Axis(street.end.x - street.start.x,
                                  street.end.z - street.start.z)),
     visitAt |-> <<>>,
     visitEvaluations |-> 0]

\* the end of spawnCar (car.js:524-602) given the outcome of the sampling loop
CarPlaced(cs, d, street, spawned, loop) ==
    [cs |-> [cars |-> IF loop.valid
                      THEN Append(cs.cars, NewCar(street, loop.progress, d.speed))
                      ELSE cs.cars,
             spawned |-> spawned],
     log |-> [ok |-> loop.valid, street |-> street.id, attempts |-> loop.attempts,
              x |-> LaneX(street, loop.progress), z |-> LaneZ(street, loop.progress),
              rejected |-> loop.rejected,
              others |-> [n \in 1..Len(cs.cars) |->
                             [x |-> cs.cars[n].x, z |-> cs.cars[n].z]],
              popBefore |-> Len(cs.cars),
              popAfter |-> IF loop.valid THEN Len(cs.cars) + 1 ELSE Len(cs.cars)]]

\* spawnCar (car.js:463-603) on the controller state cs = [cars, spawned];
\* returns the new controller state and a record of what the call did
SpawnCar(cs, d) ==
    LET unused == SelectSeq(carStreets, LAMBDA s : s.id \notin cs.spawned)
        availableStreets == IF Len(unused) = 0 THEN carStreets ELSE unused
        street == availableStreets[RandomIndex(d.lane, Len(availableStreets)) + 1]
    IN CarPlaced(cs, d, street,
                 (IF Len(unused) = 0 THEN {} ELSE cs.spawned) \cup {street.id},
                 CarSampleLoop(street, cs.cars, d, 0, {}))

\* the assignments of performTurn (car.js:719-735) for the chosen lane
CarTurnOnto(car, newStreet) ==
    [car EXCEPT !.currentStreet = newStreet,
                !.progress = 0,
                !.turnCooldown = turnCooldownTime,
                !.x = newStreet.start.x,
                !.z = newStreet.start.z,
                !.rotation = AddPi(Atan2Axis(newStreet.end.x - newStreet.start.x,
                                             newStreet.end.z - newStreet.start.z))]

\* performTurn (car.js:701-737)
CarPerformTurn(car, intersection, pick) ==
    LET availableStreets ==
            SelectSeq(carStreets,
                LAMBDA street : /\ SeqIncludes(intersection.connectedStreets, street.id)
                                /\ street.id # car.currentStreet.id
                                /\ isValidTurn(car.currentStreet, street))
    IN IF Len(availableStreets) > 0
       THEN [car |-> CarTurnOnto(car,
                        availableStreets[RandomIndex(pick, Len(availableStreets)) + 1]),
             evaluated |-> TRUE, turned |-> TRUE]
       ELSE [car |-> car, evaluated |-> TRUE, turned |-> FALSE]

\* car.js:689-690: the turn / no-turn decision is taken at the intersection;
\* visitAt and visitEvaluations are history fields, not fields of the program:
\* the intersection whose radius the car has stayed in, and the decisions
\* taken for the car during that stay
CarAtIntersection(car, intersection) ==
    [car EXCEPT !.isAtIntersection = TRUE,
                !.visitEvaluations =
                    IF car.visitAt = <<intersection.x, intersection.z>>
                    THEN Min(@ + 1, 2) ELSE 1,
                !.visitAt = <<intersection.x, intersection.z>>]

\* the history fields at the end of a tick: the stay goes on while the car is
\* within the radius (car.js:680-687) of the same intersection
CarVisit(car) ==
    LET nearby == NearbyIntersection(carIntersections, [x |-> car.x, z |-> car.z])
        at == IF Len(nearby) = 0 THEN <<>> ELSE <<nearby[1].x, nearby[1].z>>
    IN IF at # <<>> /\ at = car.visitAt
       THEN car
       ELSE [car EXCEPT !.visitAt = at, !.visitEvaluations = 0]

\* checkForTurn without its debounce test
CarCheckForTurnUndebounced(car, d) ==
    LET nearby == NearbyIntersection(carIntersections, [x |-> car.x, z |-> car.z])
    IN IF Len(nearby) > 0
       THEN IF d.turn < carTurnChance
            THEN CarPerformTurn(CarAtIntersection(car, nearby[1]), nearby[1], d.pick)
            ELSE [car |-> CarAtIntersection(car, nearby[1]),
                  evaluated |-> TRUE, turned |-> FALSE]
       ELSE [car |-> [car EXCEPT !.isAtIntersection = FALSE],
             evaluated |-> FALSE, turned |-> FALSE]

\* checkForTurn (car.js:677-699)
CarCheckForTurn(car, d) ==
    LET nearby == NearbyIntersection(carIntersections, [x |-> car.x, z |-> car.z])
    IN IF Len(nearby) > 0 /\ ~car.isAtIntersection
       THEN IF d.turn < carTurnChance
            THEN CarPerformTurn(CarAtIntersection(car, nearby[1]), nearby[1], d.pick)
            ELSE [car |-> CarAtIntersection(car, nearby[1]),
                  evaluated |-> TRUE, turned |-> FALSE]
       ELSE IF Len(nearby) = 0
            THEN [car |-> [car EXCEPT !.isAtIntersection = FALSE],
                  evaluated |-> FALSE, turned |-> FALSE]
            ELSE [car |-> car, evaluated |-> FALSE, turned |-> FALSE]

\* car.js:614-620: the cooldown runs down and the progress advances
CarAdvance(car, dt) ==
    [car EXCEPT !.turnCooldown = IF @ > 0 THEN @ - dt ELSE @,
                !.progress = @ + ProgressStep(car.speed, dt)]

\* the forced turn evaluation without the roll back of the progress
CarForcedTurnNoRollBack(t, step) ==
    [car |-> [t.car EXCEPT !.turnCooldown = blockedCooldown],
     blocked |-> TRUE, forced |-> TRUE,
     evaluated |-> t.evaluated, turned |-> t.turned]

\* car.js:633-637: the turn evaluation forced by a blocked advance, then the
\* cooldown and the roll back of the progress
CarForcedTurn(t, step) ==
    [car |-> [t.car EXCEPT !.turnCooldown = blockedCooldown, !.progress = @ - step],
     blocked |-> TRUE, forced |-> TRUE,
     evaluated |-> t.evaluated, turned |-> t.turned]

\* car.js:622-653: the candidate position is tested, then committed or rejected
CarMove(car, step, d) ==
    LET test == [x |-> LaneX(car.currentStreet, car.progress),
                 z |-> LaneZ(car.currentStreet, car.progress)]
    IN IF CarCheckCollision(buildings, test)
       THEN IF car.turnCooldown <= 0
            THEN CarForcedTurn(CarCheckForTurn(car, d), step)
            ELSE [car |-> [car EXCEPT !.progress = @ - step],
                  blocked |-> TRUE, forced |-> FALSE,
                  evaluated |-> FALSE, turned |-> FALSE]
       ELSE [car |-> [car EXCEPT !.x = test.x, !.z = test.z],
             blocked |-> FALSE, forced |-> FALSE,
             evaluated |-> FALSE, turned |-> FALSE]

\* the outcome m of the move followed by the turn evaluation t
CarAfterTurn(m, t) ==
    [m EXCEPT !.car = t.car,
              !.evaluated = @ \/ t.evaluated,
              !.turned = @ \/ t.turned]

\* the turn evaluation made wherever on the lane the car is
CarWindowAnywhere(m, d) ==
    IF m.car.turnCooldown <= 0
    THEN CarAfterTurn(m, CarCheckForTurn(m.car, d))
    ELSE m

\* car.js:655-662: the turn evaluation in the intersection window
CarWindow(m, d) ==
    IF /\ m.car.progress > windowLow
       /\ m.car.progress < windowHigh
       /\ m.car.turnCooldown <= 0
    THEN CarAfterTurn(m, CarCheckForTurn(m.car, d))
    ELSE m

\* what update did to the car at index i
CarEntry(cs, i, dt, m, spawn) ==
    [index |-> i, before |-> cs.cars[i], after |-> m.car,
     step |-> ProgressStep(cs.cars[i].speed, dt),
     blocked |-> m.blocked, forced |-> m.forced,
     evaluated |-> m.evaluated, turned |-> m.turned,
     expired |-> m.car.progress > expiryProgress,
     popBefore |-> Len(cs.cars), spawn |-> spawn]

\* car.js:671: the respawn sp made for the expired car at index i
CarRespawned(cs, i, dt, m, sp) ==
    [cars |-> sp.cs.cars, spawned |-> sp.cs.spawned,
     entries |-> Append(cs.entries, CarEntry(cs, i, dt, m, <<sp.log>>))]

\* car.js:664-673: the car is kept, or expires and is replaced
CarRetire(cs, i, dt, d, m) ==
    IF m.car.progress > expiryProgress
    THEN IF Len(Splice(cs.cars, i)) < maxCars
         THEN CarRespawned(cs, i, dt, m,
                  SpawnCar([cars |-> Splice(cs.cars, i), spawned |-> cs.spawned],
                           d.spawn))
         ELSE [cars |-> Splice(cs.cars, i), spawned |-> cs.spawned,
               entries |-> Append(cs.entries, CarEntry(cs, i, dt, m, NoSpawn))]
    ELSE [cars |-> [cs.cars EXCEPT ![i] = CarVisit(m.car)], spawned |-> cs.spawned,
          entries |-> Append(cs.entries, CarEntry(cs, i, dt, m, NoSpawn))]

\* car.js:609-653 for the car at index i, from every controller state of S and
\* under every draw: cooldown, advance, collision test
CarsMoved(S, i, dt) ==
    {[cs |-> cs, d |-> d,
      m |-> CarMove(CarAdvance(cs.cars[i], dt),
                    ProgressStep(cs.cars[i].speed, dt), d)] : cs \in S, d \in AgentDraws}

\* car.js:655-662 after each of the moves of M
CarsWindowed(M) == {[x EXCEPT !.m = CarWindow(x.m, x.d)] : x \in M}

\* car.js:664-673 after each of the moves of M
CarsRetired(M, i, dt) == {CarRetire(x.cs, i, dt, x.d, x.m) : x \in M}

\* update's loop (car.js:609-674), from the last car down to the first;
\* S holds the controller states cs = [cars, spawned, entries] reached so far
RECURSIVE UpdateCars(_, _, _)
UpdateCars(S, i, dt) ==
    IF i = 0 THEN S
    ELSE UpdateCars(CarsRetired(CarsWindowed(CarsMoved(S, i, dt)), i, dt), i - 1, dt)

\* spawnCars' loop (car.js:456-458)
RECURSIVE SpawnCarsLoop(_, _)
SpawnCarsLoop(S, n) ==
    IF n = 0 THEN S
    ELSE SpawnCarsLoop(
            {LET sp == SpawnCar([cars |-> cs.cars, spawned |-> cs.spawned], d)
             IN [cars |-> sp.cs.cars, spawned |-> sp.cs.spawned,
                 spawns |-> Append(cs.spawns, sp.log)] : cs \in S, d \in SpawnDraws},
            n - 1)

\* init (car.js:30-41): the model is loaded, the network generated, the cars spawned
CarControllerInit ==
    /\ ~carTemplate
    /\ carTemplate' = TRUE
    /\ \E r \in SpawnCarsLoop({[cars |-> cars, spawned |-> spawnedStreetIds,
                                spawns |-> <<>>]}, maxCars) :
          /\ cars' = r.cars
          /\ spawnedStreetIds' = r.spawned
          /\ carLog' = [op |-> "init", dt |-> 0, popBefore |-> Len(cars),
                        entries |-> <<>>, spawns |-> r.spawns]
    /\ UNCHANGED <<buildings, carClock, npcVars, ticks, colVars>>

\* update (car.js:605-675) called with clock.getDelta() = dt
CarUpdateAt(dt) ==
    /\ \E r \in UpdateCars({[cars |-> cars, spawned |-> spawnedStreetIds,
                               entries |-> <<>>]}, LastIndex(cars), dt) :
            /\ cars' = r.cars
            /\ spawnedStreetIds' = r.spawned
            /\ carLog' = [op |-> "update", dt |-> dt, popBefore |-> Len(cars),
                          entries |-> r.entries, spawns |-> <<>>]
    /\ carClock' = (carClock + dt) % ClockPeriod
    /\ ticks' = IF ticks < MaxTicks THEN ticks + 1 ELSE ticks
    /\ UNCHANGED <<carTemplate, buildings, npcVars, colVars>>

CarUpdate ==
    /\ ticks < MaxTicks
    /\ \E dt \in DeltaTimes : CarUpdateAt(dt)

-----------------------------------------------------------------------------
(* NonPlayableCharacter *)

\* population target of the model (NonPlayableCharacter.count, npc.js:10, is 100)
count == 2

walkSpeed == 3000

runSpeed == 8000

spawnRadius == 400

minSpawnSpacing == 50

spawnAvoidPlayerRadius == 100

followStartRadius == 600

runRadius == 120

stopFollowRadius == 900

playerStopRadius == 30

npcAvoidRadius == 25

npcSpawnAttempts == 20

npcTurnChance == 40

\* getNearbyStreets(center, radius) (npc.js:188-201)
GetNearbyStreets(center, radius) ==
    IF ~center.present THEN npcStreets
    ELSE LET nearby ==
                 SelectSeq(npcStreets,
                     LAMBDA street :
                         IF street.direction = "horizontal"
                         THEN Abs(street.start.z - center.z) <= radius
                         ELSE Abs(street.start.x - center.x) <= radius)
         IN IF Len(nearby) > 0 THEN nearby ELSE npcStreets

\* one position sample of spawnNPC (npc.js:264-282) for the draw r
NpcSample(street, player, r) ==
    IF street.direction = "horizontal"
    THEN LET minX == IF player.present
                     THEN Max(street.start.x, player.x - spawnRadius)
                     ELSE street.start.x
             maxX == IF player.present
                     THEN Min(street.end.x, player.x + spawnRadius)
                     ELSE street.end.x
         IN [x |-> minX + Quot(r * Max(10, maxX - minX), 100), z |-> street.start.z]
    ELSE LET minZ == IF player.present
                     THEN Max(street.start.z, player.z - spawnRadius)
                     ELSE street.start.z
             maxZ == IF player.present
                     THEN Min(street.end.z, player.z + spawnRadius)
                     ELSE street.end.z
         IN [x |-> street.start.x, z |-> minZ + Quot(r * Max(10, maxZ - minZ), 100)]

\* the sampling loop of spawnNPC (npc.js:263-313)
RECURSIVE NpcSampleLoop(_, _, _, _, _, _)
NpcSampleLoop(street, existing, player, d, attempts, rejected) ==
    LET target == NpcSample(street, player, IF attempts = 0 THEN d.first ELSE d.rest)
        spaced == \A n \in 1..Len(existing) :
                     ~(Dist2(existing[n].x - target.x, existing[n].z - target.z)
                          < minSpawnSpacing * minSpawnSpacing)
        clearOfPlayer ==
            ~(player.present /\ Dist2(player.x - target.x, player.z - target.z)
                                   < spawnAvoidPlayerRadius * spawnAvoidPlayerRadius)
        validPosition == /\ spaced
                         /\ clearOfPlayer
                         /\ ~CharacterCheckCollision(buildings, target)
    IN IF validPosition
       THEN [valid |-> TRUE, target |-> target, attempts |-> attempts + 1,
             rejected |-> rejected]
       ELSE IF attempts + 1 < npcSpawnAttempts
            THEN NpcSampleLoop(street, existing, player, d, attempts + 1,
                               rejected \cup {target})
            ELSE [valid |-> FALSE, target |-> target, attempts |-> attempts + 1,
                  rejected |-> rejected \cup {target}]

\* the facing a pedestrian is given on a lane (npc.js:319-325, 620-628)
NpcLaneRotation(street) ==
    IF street.direction = "horizontal"
    THEN IF street.lane \in {"right", "right_sw"} THEN HalfPi ELSE MinusHalfPi
    ELSE IF street.lane \in {"down", "down_sw"} THEN Pi ELSE Zero

\* (targetX - startX) / (lenX || 1)
NpcSpawnProgress(street, target) ==
    LET lenX == street.end.x - street.start.x
        lenZ == street.end.z - street.start.z
    IN IF street.direction = "horizontal"
       THEN Quot((target.x - street.start.x) * 1000, IF lenX = 0 THEN 10 ELSE lenX)
       ELSE Quot((target.z - street.start.z) * 1000, IF lenZ = 0 THEN 10 ELSE lenZ)

\* the pedestrian spawnNPC creates (npc.js:316-356)
NewNpc(street, target) ==
    [currentStreet |-> street,
     speed |-> 0,
     progress |-> NpcSpawnProgress(street, target),
     isAtIntersection |-> FALSE,
     turnCooldown |-> 0,
     mode |-> "idle",
     x |-> target.x,
     z |-> target.z,
     rotation |-> NpcLaneRotation(street)]

ClaimLaneAlways(occupied, valid, id) == occupied \cup {id}

\* npc.js:314, 359: `if (!validPosition) return` comes before
\* this.occupiedStreetIds.add(street.id)
ClaimLane(occupied, valid, id) == IF valid THEN occupied \cup {id} ELSE occupied

\* the end of spawnNPC (npc.js:314-369) given the outcome of the sampling loop
NpcPlaced(cs, player, candidateStreets, tier, street, used, loop) ==
    [cs |-> [npcs |-> IF loop.valid THEN Append(cs.npcs, NewNpc(street, loop.target))
                                    ELSE cs.npcs,
             used |-> used,
             occupied |-> ClaimLane(cs.occupied, loop.valid, street.id)],
     log |-> [ok |-> loop.valid, street |-> street.id, tier |-> tier,
              attempts |-> loop.attempts,
              x |-> loop.target.x, z |-> loop.target.z,
              progress |-> NpcSpawnProgress(street, loop.target),
              rejected |-> loop.rejected,
              others |-> [n \in 1..Len(cs.npcs) |->
                             [x |-> cs.npcs[n].x, z |-> cs.npcs[n].z,
                              street |-> cs.npcs[n].currentStreet.id]],
              candidates |-> [n \in 1..Len(candidateStreets) |->
                                 candidateStreets[n].id],
              player |-> player,
              usedBefore |-> cs.used, usedAfter |-> used,
              occupiedBefore |-> cs.occupied,
              occupiedAfter |-> ClaimLane(cs.occupied, loop.valid, street.id),
              popBefore |-> Len(cs.npcs),
              popAfter |-> IF loop.valid THEN Len(cs.npcs) + 1 ELSE Len(cs.npcs)]]

\* which of the three filters of npc.js:233-247 yields the lanes to draw from
SpawnTier(cs, candidateStreets) ==
    IF \E n \in 1..Len(candidateStreets) :
          /\ candidateStreets[n].id \notin cs.used
          /\ candidateStreets[n].id \notin cs.occupied
    THEN 1
    ELSE IF \E n \in 1..Len(candidateStreets) :
               candidateStreets[n].id \notin cs.occupied
         THEN 2
         ELSE 3

\* the nearby lanes without any filter
AvailableNearbyAny(cs, candidateStreets, tier) == candidateStreets

\* availableNearby (npc.js:233-247)
AvailableNearby(cs, candidateStreets, tier) ==
    IF tier = 1
    THEN SelectSeq(candidateStreets,
                   LAMBDA s : s.id \notin cs.used /\ s.id \notin cs.occupied)
    ELSE IF tier = 2
         THEN SelectSeq(candidateStreets, LAMBDA s : s.id \notin cs.occupied)
         ELSE candidateStreets

\* spawnNPC from the choice of the lane on (npc.js:248-369)
SpawnNpcOn(cs, player, d, candidateStreets, tier, street) ==
    NpcPlaced(cs, player, candidateStreets, tier, street,
              (IF tier = 3 THEN {} ELSE cs.used) \cup {street.id},
              NpcSampleLoop(street, cs.npcs, player, d, 0, {}))

\* spawnNPC from the candidate lanes on (npc.js:232-369)
SpawnNpcFrom(cs, player, d, candidateStreets, availableNearby) ==
    SpawnNpcOn(cs, player, d, candidateStreets, SpawnTier(cs, candidateStreets),
               availableNearby[RandomIndex(d.lane, Len(availableNearby)) + 1])

\* spawnNPC (npc.js:211-370) on the controller state cs = [npcs, used, occupied]
SpawnNPC(cs, player, d) ==
    SpawnNpcFrom(cs, player, d, GetNearbyStreets(player, spawnRadius),
                 AvailableNearby(cs, GetNearbyStreets(player, spawnRadius),
                                 SpawnTier(cs, GetNearbyStreets(player, spawnRadius))))

\* the assignments of performTurn (npc.js:608-628) for the chosen lane
NpcTurnOnto(npc, occupied, newStreet, candidates) ==
    [npc |-> [npc EXCEPT !.currentStreet = newStreet,
                         !.progress = 0,
                         !.turnCooldown = turnCooldownTime,
                         !.x = newStreet.start.x,
                         !.z = newStreet.start.z,
                         !.rotation = NpcLaneRotation(newStreet)],
     occupied |-> (occupied \ {npc.currentStreet.id}) \cup {newStreet.id},
     evaluated |-> TRUE, turned |-> TRUE,
     candidates |-> [n \in 1..Len(candidates) |-> candidates[n].id]]

\* performTurn from the candidate lanes on (npc.js:603-629)
NpcTurnAmong(npc, occupied, candidates, free, pick) ==
    IF Len(candidates) = 0
    THEN [npc |-> npc, occupied |-> occupied, evaluated |-> TRUE, turned |-> FALSE,
          candidates |-> <<>>]
    ELSE IF Len(free) = 0
         THEN NpcTurnOnto(npc, occupied,
                          candidates[RandomIndex(pick, Len(candidates)) + 1], candidates)
         ELSE NpcTurnOnto(npc, occupied,
                          free[RandomIndex(pick, Len(free)) + 1], candidates)

\* the lanes performTurn may switch to (npc.js:597-602)
NpcTurnCandidates(npc, intersection) ==
    SelectSeq(npcStreets,
        LAMBDA s : /\ SeqIncludes(intersection.connectedStreets, s.id)
                   /\ s.id # npc.currentStreet.id
                   /\ isValidTurn(npc.currentStreet, s))

\* performTurn (npc.js:596-629); returns the pedestrian and the occupancy set
NpcPerformTurn(npc, occupied, intersection, pick) ==
    NpcTurnAmong(npc, occupied, NpcTurnCandidates(npc, intersection),
                 SelectSeq(NpcTurnCandidates(npc, intersection),
                           LAMBDA s : s.id \notin occupied),
                 pick)

\* checkForTurn (npc.js:581-594)
NpcCheckForTurn(npc, occupied, d) ==
    LET nearby == NearbyIntersection(npcIntersections, [x |-> npc.x, z |-> npc.z])
    IN IF Len(nearby) > 0 /\ ~npc.isAtIntersection
       THEN IF d.turn < npcTurnChance
            THEN NpcPerformTurn([npc EXCEPT !.isAtIntersection = TRUE], occupied,
                                nearby[1], d.pick)
            ELSE [npc |-> [npc EXCEPT !.isAtIntersection = TRUE],
                  occupied |-> occupied, evaluated |-> TRUE, turned |-> FALSE,
                  candidates |-> <<>>]
       ELSE IF Len(nearby) = 0
            THEN [npc |-> [npc EXCEPT !.isAtIntersection = FALSE],
                  occupied |-> occupied, evaluated |-> FALSE, turned |-> FALSE,
                  candidates |-> <<>>]
            ELSE [npc |-> npc, occupied |-> occupied,
                  evaluated |-> FALSE, turned |-> FALSE, candidates |-> <<>>]

\* the behaviour update with the run tier left out
NpcBehaviourWalkOnly(npc, player) ==
    LET d2 == Dist2(player.x - npc.x, player.z - npc.z)
    IN IF ~player.present THEN npc
       ELSE IF d2 <= playerStopRadius * playerStopRadius
       THEN IF npc.mode # "idle" THEN [npc EXCEPT !.mode = "idle", !.speed = 0]
                                 ELSE npc
       ELSE IF d2 <= stopFollowRadius * stopFollowRadius
       THEN [npc EXCEPT !.mode = "follow", !.speed = walkSpeed]
       ELSE IF npc.mode # "idle" THEN [npc EXCEPT !.mode = "idle", !.speed = 0]
                                 ELSE npc

\* the behaviour update from the distance to the player (npc.js:386-434)
NpcBehaviour(npc, player) ==
    LET d2 == Dist2(player.x - npc.x, player.z - npc.z)
    IN IF ~player.present THEN npc
       ELSE IF d2 <= playerStopRadius * playerStopRadius
       THEN IF npc.mode # "idle" THEN [npc EXCEPT !.mode = "idle", !.speed = 0]
                                 ELSE npc
       ELSE IF d2 <= runRadius * runRadius
       THEN [npc EXCEPT !.mode = "follow", !.speed = walkSpeed]
       ELSE IF d2 <= stopFollowRadius * stopFollowRadius
       THEN [npc EXCEPT !.mode = "follow", !.speed = runSpeed]
       ELSE IF npc.mode # "idle" THEN [npc EXCEPT !.mode = "idle", !.speed = 0]
                                 ELSE npc

\* the sum over the other pedestrians of the push away from each one closer
\* than npcAvoidRadius (npc.js:446-459), as <<sepX, sepZ>>
RECURSIVE Separation(_, _, _, _)
Separation(all, i, npc, j) ==
    IF j > Len(all) THEN <<0, 0>>
    ELSE LET ox == npc.x - all[j].x
             oz == npc.z - all[j].z
             d == ISqrt(Dist2(ox, oz))
             factor == Quot((npcAvoidRadius - d) * 1000, npcAvoidRadius)
             near == /\ j # i
                     /\ Dist2(ox, oz) > 0
                     /\ Dist2(ox, oz) < npcAvoidRadius * npcAvoidRadius
             rest == Separation(all, i, npc, j + 1)
         IN IF near
            THEN <<Quot(ox * factor, Max(d, 1)) + rest[1],
                   Quot(oz * factor, Max(d, 1)) + rest[2]>>
            ELSE rest

\* the unit vector towards the player (npc.js:439-443)
Towards(npc, player) ==
    LET len0 == ISqrt(Dist2(player.x - npc.x, player.z - npc.z))
        len == IF len0 = 0 THEN 10 ELSE len0
    IN <<Quot((player.x - npc.x) * 1000, len), Quot((player.z - npc.z) * 1000, len)>>

\* the push away from the player (npc.js:463-478)
PlayerPush(npc, player) ==
    LET pd == ISqrt(Dist2(player.x - npc.x, player.z - npc.z))
        factorP == Max(0, Quot((playerStopRadius + 10 - pd) * 1000,
                               playerStopRadius + 10))
    IN IF pd > 0 /\ Dist2(player.x - npc.x, player.z - npc.z)
                       < followStartRadius * followStartRadius
       THEN <<Quot(Quot((npc.x - player.x) * 1000, pd) * factorP * 8, 10000),
              Quot(Quot((npc.z - player.z) * 1000, pd) * factorP * 8, 10000)>>
       ELSE <<0, 0>>

\* dir / (Math.hypot(dir) || 1) (npc.js:479-481)
Normalised(v) ==
    LET dLen0 == ISqrt(Dist2(v[1], v[2]))
        dLen == IF dLen0 = 0 THEN 1000 ELSE dLen0
    IN <<Quot(v[1] * 1000, dLen), Quot(v[2] * 1000, dLen)>>

\* desired direction plus the two separations (npc.js:460-461, 476-477)
Steer(towards, sep, push) ==
    <<towards[1] + Quot(sep[1] * 6, 10) + push[1],
      towards[2] + Quot(sep[2] * 6, 10) + push[2]>>

\* npc.js:483-526: the step along dir, held off the player and the others
NpcStep(all, i, npc, player, dir, moveScale0) ==
    LET nextX == npc.x + Quot(dir[1] * moveScale0, 1000)
        nextZ == npc.z + Quot(dir[2] * moveScale0, 1000)
        stops == Dist2(player.x - nextX, player.z - nextZ)
                     < playerStopRadius * playerStopRadius
        crowded == \E j \in 1..Len(all) :
                      /\ j # i
                      /\ 4 * Dist2(all[j].x - nextX, all[j].z - nextZ)
                             < (81 * npcAvoidRadius * npcAvoidRadius) \div 25
        moveScale == IF stops THEN 0
                     ELSE IF moveScale0 > 0 /\ crowded THEN Quot(moveScale0 * 2, 10)
                     ELSE moveScale0
    IN [npc EXCEPT !.mode = IF stops THEN "idle" ELSE @,
                   !.speed = IF stops THEN 0 ELSE @,
                   !.x = @ + Quot(dir[1] * moveScale, 1000),
                   !.z = @ + Quot(dir[2] * moveScale, 1000),
                   !.rotation = IF dir[1] = 0 /\ dir[2] = 0 THEN Zero ELSE dir]

\* the follow step (npc.js:437-526) of the pedestrian at index i
NpcFollow(all, i, npc, player, dt) ==
    NpcStep(all, i, npc, player,
            Normalised(Steer(Towards(npc, player), Separation(all, i, npc, 1),
                             PlayerPush(npc, player))),
            Quot(npc.speed * dt * 5, 1000))

\* legacy street walking (npc.js:533-542): cooldown, progress, position
NpcWalk(npc, dt) ==
    [npc EXCEPT !.turnCooldown = IF @ > 0 THEN @ - dt ELSE @,
                !.progress = @ + ProgressStep(npc.speed, dt),
                !.x = LaneX(npc.currentStreet, npc.progress + ProgressStep(npc.speed, dt)),
                !.z = LaneZ(npc.currentStreet, npc.progress + ProgressStep(npc.speed, dt))]

\* npc.js:545-551: the turn evaluation in the intersection window
NpcWindow(npc, occupied, d) ==
    IF /\ npc.progress > windowLow
       /\ npc.progress < windowHigh
       /\ npc.turnCooldown <= 0
    THEN NpcCheckForTurn(npc, occupied, d)
    ELSE [npc |-> npc, occupied |-> occupied, evaluated |-> FALSE, turned |-> FALSE,
          candidates |-> <<>>]

\* npc.js:437-552: movement by mode, for the pedestrian npc after its behaviour update
NpcMove(cs, i, npc, player, dt, d) ==
    IF npc.mode = "follow" /\ player.present
    THEN [npc |-> NpcFollow(cs.npcs, i, npc, player, dt), occupied |-> cs.occupied,
          evaluated |-> FALSE, turned |-> FALSE, candidates |-> <<>>]
    ELSE IF npc.mode = "idle"
    THEN [npc |-> npc, occupied |-> cs.occupied,
          evaluated |-> FALSE, turned |-> FALSE, candidates |-> <<>>]
    ELSE NpcWindow(NpcWalk(npc, dt), cs.occupied, d)

\* what update did to the pedestrian at index i
NpcEntry(cs, i, player, dt, m, spawn) ==
    [index |-> i, before |-> cs.npcs[i], after |-> m.npc,
     step |-> ProgressStep(NpcBehaviour(cs.npcs[i], player).speed, dt),
     behaviour |-> IF NpcBehaviour(cs.npcs[i], player).mode = "follow"
                   THEN IF player.present THEN "follow" ELSE "walk"
                   ELSE "idle",
     player |-> player,
     others |-> [n \in 1..(Len(cs.npcs) - 1) |->
                    Splice(cs.npcs, i)[n].currentStreet.id],
     evaluated |-> m.evaluated, turned |-> m.turned, candidates |-> m.candidates,
     expired |-> m.npc.progress > expiryProgress,
     popBefore |-> Len(cs.npcs), spawn |-> spawn]

\* npc.js:576: the respawn sp made for the expired pedestrian at index i
NpcRespawned(cs, i, player, dt, m, sp) ==
    [npcs |-> sp.cs.npcs, used |-> sp.cs.used, occupied |-> sp.cs.occupied,
     entries |-> Append(cs.entries, NpcEntry(cs, i, player, dt, m, <<sp.log>>))]

ReleaseNothing(occupied, id) == occupied

\* npc.js:571-573: this.occupiedStreetIds.delete(userData.currentStreet.id)
ReleaseLane(occupied, id) == occupied \ {id}

\* npc.js:568-577: the pedestrian is kept, or expires and is replaced
NpcRetire(cs, i, player, dt, d, m) ==
    IF m.npc.progress > expiryProgress
    THEN IF Len(Splice(cs.npcs, i)) < count
         THEN NpcRespawned(cs, i, player, dt, m,
                  SpawnNPC([npcs |-> Splice(cs.npcs, i), used |-> cs.used,
                            occupied |-> ReleaseLane(m.occupied, m.npc.currentStreet.id)],
                           player, d.spawn))
         ELSE [npcs |-> Splice(cs.npcs, i), used |-> cs.used,
               occupied |-> ReleaseLane(m.occupied, m.npc.currentStreet.id),
               entries |-> Append(cs.entries, NpcEntry(cs, i, player, dt, m, NoSpawn))]
    ELSE [npcs |-> [cs.npcs EXCEPT ![i] = m.npc], used |-> cs.used,
          occupied |-> m.occupied,
          entries |-> Append(cs.entries, NpcEntry(cs, i, player, dt, m, NoSpawn))]

\* the body of update's loop for the pedestrian at index i (npc.js:379-577);
\* cs = [npcs, used, occupied, entries]
UpdateNpc(cs, i, player, dt, d) ==
    NpcRetire(cs, i, player, dt, d,
        NpcMove(cs, i, NpcBehaviour(cs.npcs[i], player), player, dt, d))

\* update's loop, from the last pedestrian down to the first, over every draw
RECURSIVE UpdateNpcs(_, _, _, _)
UpdateNpcs(S, i, player, dt) ==
    IF i = 0 THEN S
    ELSE UpdateNpcs({UpdateNpc(cs, i, player, dt, d) : cs \in S, d \in NpcAgentDraws},
                    i - 1, player, dt)

\* spawnAll's loop (npc.js:205-207)
RECURSIVE SpawnAllLoop(_, _, _)
SpawnAllLoop(S, player, n) ==
    IF n = 0 THEN S
    ELSE SpawnAllLoop(
            {LET sp == SpawnNPC([npcs |-> cs.npcs, used |-> cs.used,
                                 occupied |-> cs.occupied], player, d)
             IN [npcs |-> sp.cs.npcs, used |-> sp.cs.used,
                 occupied |-> sp.cs.occupied,
                 spawns |-> Append(cs.spawns, sp.log)] : cs \in S, d \in NpcSpawnDraws},
            player, n - 1)

\* spawnAll (npc.js:203-209)
SpawnAll(op) ==
    \E r \in SpawnAllLoop({[npcs |-> npcs, used |-> usedSpawnStreetIds,
                            occupied |-> occupiedStreetIds, spawns |-> <<>>]},
                          playerPos, count) :
        /\ npcs' = r.npcs
        /\ usedSpawnStreetIds' = r.used
        /\ occupiedStreetIds' = r.occupied
        /\ npcLog' = [op |-> op, dt |-> 0, popBefore |-> Len(npcs),
                      entries |-> <<>>, spawns |-> r.spawns]

\* playerModel === null
NoPlayer == [present |-> FALSE, x |-> 0, z |-> 0]

\* the positions the host may hand over as the player model
PlayerNearCrossing == [present |-> TRUE, x |-> -250, z |-> 0]

PlayerPositions == {PlayerNearCrossing}

\* setPlayer(playerModel) (npc.js:45-47)
SetPlayer ==
    /\ ~playerPos.present
    /\ \E p \in PlayerPositions : playerPos' = p
    /\ UNCHANGED <<buildings, carVars, isInitialized, npcs, usedSpawnStreetIds,
                   occupiedStreetIds, spawnTimer, npcLog, ticks, colVars>>

\* setPlayer(null)
ClearPlayer ==
    /\ playerPos.present
    /\ playerPos' = NoPlayer
    /\ UNCHANGED <<buildings, carVars, isInitialized, npcs, usedSpawnStreetIds,
                   occupiedStreetIds, spawnTimer, npcLog, ticks, colVars>>

\* init (npc.js:49-65) once the template is loaded
NpcControllerInit ==
    /\ ~isInitialized
    /\ isInitialized' = TRUE
    /\ IF playerPos.present
       THEN SpawnAll("init") /\ UNCHANGED spawnTimer
       ELSE /\ spawnTimer' = TRUE
            /\ npcLog' = [op |-> "init", dt |-> 0, popBefore |-> Len(npcs),
                          entries |-> <<>>, spawns |-> <<>>]
            /\ UNCHANGED <<npcs, usedSpawnStreetIds, occupiedStreetIds>>
    /\ UNCHANGED <<buildings, carVars, playerPos, ticks, colVars>>

\* the callback of setTimeout(() => this.spawnAll(), 200) (npc.js:60)
NpcSpawnTimer ==
    /\ spawnTimer
    /\ spawnTimer' = FALSE
    /\ SpawnAll("timer")
    /\ UNCHANGED <<buildings, carVars, playerPos, isInitialized, ticks, colVars>>

\* update (npc.js:372-579) called with clock.getDelta() = dt
NpcUpdateAt(dt) ==
    /\ isInitialized
    /\ Len(npcs) > 0
    /\ \E r \in UpdateNpcs({[npcs |-> npcs, used |-> usedSpawnStreetIds,
                             occupied |-> occupiedStreetIds, entries |-> <<>>]},
                           LastIndex(npcs), playerPos, dt) :
            /\ npcs' = r.npcs
            /\ usedSpawnStreetIds' = r.used
            /\ occupiedStreetIds' = r.occupied
            /\ npcLog' = [op |-> "update", dt |-> dt, popBefore |-> Len(npcs),
                          entries |-> r.entries, spawns |-> <<>>]
    /\ ticks' = IF ticks < MaxTicks THEN ticks + 1 ELSE ticks
    /\ UNCHANGED <<buildings, carVars, playerPos, isInitialized, spawnTimer, colVars>>

NpcUpdate ==
    /\ ticks < MaxTicks
    /\ \E dt \in DeltaTimes : NpcUpdateAt(dt)

-----------------------------------------------------------------------------
(* PlayerController *)

npcCollisionRadius == 15

playerWalkSpeed == 3

playerRunSpeed == 8

\* collidesWithNPCs(pos) (part_000:31-39), the pedestrian controller being attached
CollidesWithNPCs(all, pos) ==
    \E n \in 1..Len(all) :
        Dist2(all[n].x - pos.x, all[n].z - pos.z)
            < npcCollisionRadius * npcCollisionRadius

\* the draws of getRandomGroundPosition (part_000:44-45): beside the west face
\* of the landmark at the origin, and inside the landmark over the sidewalk
PlayerStarts == {[x |-> -650, z |-> -198], [x |-> -1100, z |-> 700]}

\* the fallback { x: minX + 10, z: minZ + 10 } (part_000:52)
PlayerFallback == [x |-> -2400, z |-> -2400]

\* init (part_000:15-25): a draw that checkCollision accepts, or the fallback
\* when the draws are rejected
PlayerControllerInit ==
    /\ ~playerPos.present
    /\ \E p \in PlayerStarts :
          playerPos' = IF ~CharacterCheckCollision(buildings, p)
                       THEN [present |-> TRUE, x |-> p.x, z |-> p.z]
                       ELSE [present |-> TRUE, x |-> PlayerFallback.x,
                             z |-> PlayerFallback.z]
    /\ UNCHANGED <<buildings, carVars, isInitialized, npcs, usedSpawnStreetIds,
                   occupiedStreetIds, spawnTimer, npcLog, ticks, colVars>>

\* the forward vector (0, 0, 1) turned by rotation.y (part_000:75-77)
PlayerHeadings == {<<1000, 0>>, <<-1000, 0>>}

\* newPosition = currentPosition + forward * scale (part_000:84-86, 98-100)
PlayerCandidate(current, forward, scale) ==
    [present |-> TRUE, x |-> current.x + Quot(forward[1] * scale, 1000),
     z |-> current.z + Quot(forward[2] * scale, 1000)]

\* part_000:89-94, 103-108: the candidate is taken unless checkCollision or
\* collidesWithNPCs reports a hit
PlayerCommit(position, pressed, candidate) ==
    IF /\ pressed
       /\ ~CharacterCheckCollision(buildings, candidate)
       /\ ~CollidesWithNPCs(npcs, candidate)
    THEN candidate
    ELSE position

\* update(input) (part_000:55-127) with clock.getDelta() = dt; both candidates
\* are taken from the position the call began with
PlayerUpdateAt(input, forward, dt) ==
    /\ playerPos.present
    /\ ticks < MaxTicks
    /\ LET moveSpeed == (IF input.isRunning THEN playerRunSpeed ELSE playerWalkSpeed)
                             * 10 * dt
       IN playerPos' =
              PlayerCommit(
                  PlayerCommit(playerPos, input.forward,
                               PlayerCandidate(playerPos, forward, moveSpeed)),
                  input.backward,
                  PlayerCandidate(playerPos, forward, -moveSpeed))
    /\ ticks' = ticks + 1
    /\ UNCHANGED <<buildings, carVars, isInitialized, npcs, usedSpawnStreetIds,
                   occupiedStreetIds, spawnTimer, npcLog, colVars>>

\* a frame of one second under any keys and either heading
PlayerUpdate ==
    \E input \in [forward : BOOLEAN, backward : BOOLEAN, isRunning : BOOLEAN],
       forward \in PlayerHeadings :
        PlayerUpdateAt(input, forward, 1)

-----------------------------------------------------------------------------
(* Worlds: the obstacle lists handed to the controllers *)

Building(x, z, width, depth) == [x |-> x, z |-> z, width |-> width, depth |-> depth]

\* a landmark across the first street row whose west face is met next to the
\* intersection of row 1 and column 1
LandmarkAtCorner == Building(-2150, -2850, 1000, 1000)

\* a landmark across the first street row whose west face is met between
\* intersections
LandmarkMidBlock == Building(-2300, -2850, 1100, 1100)

\* its mirror image at the east end of the first street row
LandmarkMidBlockEast == Building(2300, -2850, 1100, 1100)

\* a landmark over the west end of the second street row
LandmarkAtRowStart == Building(-2900, -2400, 800, 800)

BuildingConfigs == {<<>>, <<LandmarkAtCorner, LandmarkAtRowStart>>}


NoLog == [op |-> "none", dt |-> 0, popBefore |-> 0, entries |-> <<>>, spawns |-> <<>>]

NoQuery == [x |-> 0, z |-> 0]

NoResult == [who |-> "none", hit |-> FALSE, connected |-> <<>>]

\* the state after the constructors (car.js:5-28, npc.js:7-38)
Constructed ==
    /\ carTemplate = FALSE
    /\ cars = <<>>
    /\ spawnedStreetIds = {}
    /\ carClock = 0
    /\ carLog = NoLog
    /\ playerPos = NoPlayer
    /\ isInitialized = FALSE
    /\ npcs = <<>>
    /\ usedSpawnStreetIds = {}
    /\ occupiedStreetIds = {}
    /\ spawnTimer = FALSE
    /\ npcLog = NoLog
    /\ ticks = 0
    /\ colQuery = NoQuery
    /\ colResult = NoResult

CarInit ==
    /\ buildings \in BuildingConfigs
    /\ Constructed

CarNext == CarControllerInit \/ CarUpdate

CarSpec == CarInit /\ [][CarNext]_vars

\* a building beside the first street row that stands across column 22 just
\* south of the start of its lanes
LandmarkAtColumnStart == Building(294, -2700, 100, 260)

BlockedInit ==
    /\ buildings = <<LandmarkAtColumnStart>>
    /\ Constructed

\* the cars in a world where a lane entered by a turn is obstructed
BlockedSpec == BlockedInit /\ [][CarNext]_vars

\* the animation loop calling update with a frame time of one second
CarFrame == CarUpdateAt(1)

CarFairInit ==
    /\ buildings \in {<<LandmarkMidBlock>>, <<LandmarkMidBlock, LandmarkMidBlockEast>>}
    /\ Constructed

CarFairNext == CarControllerInit \/ CarFrame

\* the loop never stops calling update (requestAnimationFrame)
CarFairSpec == CarFairInit /\ [][CarFairNext]_vars /\ WF_vars(CarFrame)

\* a landmark centred on the line x = 0, over the sidewalks of rows 19 and 22
LandmarkAtOrigin == Building(0, -200, 1200, 1200)

\* a landmark over the sidewalks of row 22, west of x = -58
LandmarkOverSidewalk == Building(-1100, 700, 1000, 1000)

NpcBuildingConfigs == {<<LandmarkAtOrigin, LandmarkOverSidewalk>>}

NpcInit ==
    /\ buildings \in NpcBuildingConfigs
    /\ Constructed

NpcNext == SetPlayer \/ ClearPlayer \/ NpcControllerInit \/ NpcSpawnTimer \/ NpcUpdate

NpcSpec == NpcInit /\ [][NpcNext]_vars

\* the player has walked past the north-west corner of the street grid, where
\* getNearbyStreets (npc.js:188-201) finds only v_1_down_sw, or only the two
\* sidewalk lanes of column 1
PlayerPastCorner ==
    {[present |-> TRUE, x |-> -3298, z |-> -3300],
     [present |-> TRUE, x |-> -3200, z |-> -3300]}

\* setPlayer(playerModel) (npc.js:45-47) with the player past the corner
SetPlayerPastCorner ==
    /\ ~playerPos.present
    /\ \E p \in PlayerPastCorner : playerPos' = p
    /\ UNCHANGED <<buildings, carVars, isInitialized, npcs, usedSpawnStreetIds,
                   occupiedStreetIds, spawnTimer, npcLog, ticks, colVars>>

CornerNext == SetPlayerPastCorner \/ NpcControllerInit \/ NpcSpawnTimer \/ NpcUpdate

\* a landmark over the north-west corner of the grid, across the start of
\* v_1_down_sw
LandmarkOverCorner == Building(-2900, -2900, 300, 300)

CornerInit ==
    /\ buildings \in {<<>>, <<LandmarkOverCorner>>}
    /\ Constructed

\* the pedestrians of a player who stands past the corner of the grid
CornerSpec == CornerInit /\ [][CornerNext]_vars

PlayerNext == PlayerControllerInit \/ NpcControllerInit \/ NpcSpawnTimer \/ PlayerUpdate

\* the player walking among buildings and standing pedestrians
PlayerSpec == NpcInit /\ [][PlayerNext]_vars

\* the places the player model is found at by update (npc.js:376): near the
\* crossing, 2 and 4 units east of the first spawn sample of h_19_right_sw, and
\* far from every pedestrian
PlayerMoves ==
    {PlayerNearCrossing,
     [present |-> TRUE, x |-> -630, z |-> -198],
     [present |-> TRUE, x |-> -610, z |-> -198],
     [present |-> TRUE, x |-> 2000, z |-> 2000]}

\* the updates made while the player moves about
MaxFollowTicks == 2

\* the player model has moved between two updates
MovePlayer ==
    /\ playerPos.present
    /\ isInitialized
    /\ ticks < MaxFollowTicks
    /\ \E p \in PlayerMoves \ {playerPos} : playerPos' = p
    /\ UNCHANGED <<buildings, carVars, isInitialized, npcs, usedSpawnStreetIds,
                   occupiedStreetIds, spawnTimer, npcLog, ticks, colVars>>

FollowUpdate ==
    /\ ticks < MaxFollowTicks
    /\ \E dt \in DeltaTimes : NpcUpdateAt(dt)

FollowNext ==
    SetPlayer \/ MovePlayer \/ NpcControllerInit \/ NpcSpawnTimer \/ FollowUpdate

\* the pedestrians with a player that moves about
FollowSpec == NpcInit /\ [][FollowNext]_vars

-----------------------------------------------------------------------------
(* The geometric queries on their own: checkCollision and getConnectedStreets *)

\* the obstacle of the specification's scenario and translates of it
ObstacleAtOrigin == Building(0, 0, 100, 100)

ObstacleOnXAxis == Building(500, 0, 100, 100)

ObstacleOnZAxis == Building(0, 300, 100, 100)

ObstacleOffAxes == Building(500, 300, 100, 100)

GeometryBuildingConfigs ==
    {<<ObstacleAtOrigin>>, <<ObstacleOnXAxis>>, <<ObstacleOnZAxis>>,
     <<ObstacleOffAxes>>, <<ObstacleOffAxes, ObstacleAtOrigin>>}

\* positions handed to checkCollision
QueryPoints == [x : {0, 60, 80, 500, 560, 580}, z : {0, 60, 80, 300, 360, 380}]

\* coordinates handed to getConnectedStreets: the grid crossings
CrossingPoints ==
    [x : {GridCoord(StreetIndices[n]) : n \in 1..Len(StreetIndices)},
     z : {GridCoord(StreetIndices[n]) : n \in 1..Len(StreetIndices)}]

\* CarController.checkCollision(pos)
CheckCollisionCar ==
    /\ \E pos \in QueryPoints :
          /\ colQuery' = pos
          /\ colResult' = [who |-> "car", hit |-> CarCheckCollision(buildings, pos),
                           connected |-> <<>>]
    /\ UNCHANGED <<buildings, carVars, npcVars, ticks>>

\* BaseCharacter.checkCollision(pos), as called by the pedestrians and the player
CheckCollisionCharacter ==
    /\ \E pos \in QueryPoints :
          /\ colQuery' = pos
          /\ colResult' = [who |-> "character",
                           hit |-> CharacterCheckCollision(buildings, pos),
                           connected |-> <<>>]
    /\ UNCHANGED <<buildings, carVars, npcVars, ticks>>

\* CarController.getConnectedStreets(x, z)
GetConnectedStreetsCar ==
    /\ \E pos \in CrossingPoints :
          /\ colQuery' = pos
          /\ colResult' = [who |-> "carStreets", hit |-> FALSE,
                           connected |-> ConnectedStreets(carStreets, carTolerance,
                                                          pos.x, pos.z)]
    /\ UNCHANGED <<buildings, carVars, npcVars, ticks>>

\* NonPlayableCharacter.getConnectedStreets(x, z)
GetConnectedStreetsNpc ==
    /\ \E pos \in CrossingPoints :
          /\ colQuery' = pos
          /\ colResult' = [who |-> "npcStreets", hit |-> FALSE,
                           connected |-> ConnectedStreets(npcStreets, npcTolerance,
                                                          pos.x, pos.z)]
    /\ UNCHANGED <<buildings, carVars, npcVars, ticks>>

GeometryInit ==
    /\ buildings \in GeometryBuildingConfigs
    /\ Constructed

GeometryNext ==
    \/ CheckCollisionCar
    \/ CheckCollisionCharacter
    \/ GetConnectedStreetsCar
    \/ GetConnectedStreetsNpc

GeometrySpec == GeometryInit /\ [][GeometryNext]_vars

-----------------------------------------------------------------------------
(* isValidTurn on its own, for every pair of lanes of either graph *)

LanePairs(streets) ==
    {[from |-> streets[i], to |-> streets[j]] : i, j \in 1..Len(streets)}

\* the arguments isValidTurn is about to be called with
TurnInit ==
    /\ buildings = <<>>
    /\ carTemplate = FALSE
    /\ cars = <<>>
    /\ spawnedStreetIds = {}
    /\ carClock = 0
    /\ carLog = NoLog
    /\ playerPos = NoPlayer
    /\ isInitialized = FALSE
    /\ npcs = <<>>
    /\ usedSpawnStreetIds = {}
    /\ occupiedStreetIds = {}
    /\ spawnTimer = FALSE
    /\ npcLog = NoLog
    /\ ticks = 0
    /\ colQuery \in LanePairs(carStreets) \cup LanePairs(npcStreets)
    /\ colResult = NoResult

\* isValidTurn(fromStreet, toStreet)
IsValidTurnCall ==
    /\ colResult.who = "none"
    /\ colResult' = [who |-> "isValidTurn",
                     hit |-> isValidTurn(colQuery.from, colQuery.to),
                     connected |-> <<>>]
    /\ UNCHANGED <<buildings, carVars, npcVars, ticks, colQuery>>

TurnSpec == TurnInit /\ [][IsValidTurnCall]_vars

-----------------------------------------------------------------------------
(* Claims *)

\* the padded axis-aligned box test the specification states
PaddedBoxHit(bs, pos, radius) ==
    \E n \in 1..Len(bs) :
        /\ 2 * Abs(pos.x - bs[n].x) < bs[n].width + 2 * radius
        /\ 2 * Abs(pos.z - bs[n].z) < bs[n].depth + 2 * radius

\* C1: for the cars and for the characters (pedestrians, player) checkCollision
\* returns true exactly when some obstacle satisfies the padded box test
\* |dx| < width/2 + radius and |dz| < depth/2 + radius, wherever the obstacle
\* is centred.
C1_CollisionIsPaddedBox ==
    /\ colResult.who = "car"
          => (colResult.hit <=> PaddedBoxHit(buildings, colQuery, carRadius))
    /\ colResult.who = "character"
          => (colResult.hit <=> PaddedBoxHit(buildings, colQuery, characterRadius))

\* the lane passes through the point: cross-axis within the tolerance band,
\* along-axis between the lane's two end coordinates
PassesThrough(street, tolerance, pos) ==
    IF street.direction = "horizontal"
    THEN /\ Abs(street.start.z - pos.z) < tolerance
         /\ Min(street.start.x, street.end.x) <= pos.x
         /\ pos.x <= Max(street.start.x, street.end.x)
    ELSE /\ Abs(street.start.x - pos.x) < tolerance
         /\ Min(street.start.z, street.end.z) <= pos.z
         /\ pos.z <= Max(street.start.z, street.end.z)

ConnectedExactly(streets, tolerance) ==
    \A n \in 1..Len(streets) :
        SeqIncludes(colResult.connected, streets[n].id)
            <=> PassesThrough(streets[n], tolerance, colQuery)

\* C2: a lane's id is in the connected set of a crossing exactly when the
\* crossing is within the tolerance band of the lane and between the lane's
\* start and end, for lanes of either travel direction.
C2_ConnectedIffPassesThrough ==
    /\ colResult.who = "carStreets" => ConnectedExactly(carStreets, carTolerance)
    /\ colResult.who = "npcStreets" => ConnectedExactly(npcStreets, npcTolerance)

\* the two lanes belong to the same street (same axis, same row or column)
SameStreet(a, b) == a.id[1] = b.id[1] /\ a.id[2] = b.id[2]

\* C3: the lane a turn switches a car to is never its current lane and never
\* the opposite-direction lane of the same street.
C3_NoUTurnNoReselect ==
    \A n \in 1..Len(carLog.entries) :
        LET e == carLog.entries[n] IN
        e.turned => /\ e.after.currentStreet.id # e.before.currentStreet.id
                    /\ ~SameStreet(e.before.currentStreet, e.after.currentStreet)

\* C4: at the end of a tick in which a car turned, by the intersection window
\* or forced by a blocked advance, its progress is 0 and it stands at the start
\* point of its new lane.
C4_TurnEndsAtLaneStart ==
    \A n \in 1..Len(carLog.entries) :
        LET e == carLog.entries[n] IN
        e.turned => /\ e.after.progress = 0
                    /\ e.after.currentStreet.id # e.before.currentStreet.id
                    /\ e.after.x = e.after.currentStreet.start.x
                    /\ e.after.z = e.after.currentStreet.start.z

\* C5 as stated: when a car expires with the population at its target, the
\* population is at the target again after the one respawn call.
C5_RespawnAlwaysRestoresTarget ==
    \A n \in 1..Len(carLog.entries) :
        LET e == carLog.entries[n] IN
        (e.expired /\ e.popBefore = maxCars)
            => /\ Len(e.spawn) = 1
               /\ e.spawn[1].popAfter = maxCars

\* C5, amended: when a car expires with the population at its target, exactly
\* one respawn call is made on the population less the expired car; it brings
\* the population back to the target if it finds a valid placement and leaves
\* it one below the target otherwise.
C5_RespawnRestoresTargetWhenPlaced ==
    \A n \in 1..Len(carLog.entries) :
        LET e == carLog.entries[n] IN
        (e.expired /\ e.popBefore = maxCars)
            => /\ Len(e.spawn) = 1
               /\ e.spawn[1].popBefore = maxCars - 1
               /\ e.spawn[1].popAfter = IF e.spawn[1].ok THEN maxCars
                                                         ELSE maxCars - 1

C5_ExpiredAtTargetAndRespawned ==
    \E n \in 1..Len(carLog.entries) :
        LET e == carLog.entries[n] IN
        /\ e.expired
        /\ e.popBefore = maxCars
        /\ Len(e.spawn) = 1
        /\ e.spawn[1].ok
        /\ Len(cars) = maxCars

\* C6: once the cars have been spawned, an update that starts with the
\* population below its target (a spawn has failed) attempts a spawn, so a
\* failed spawn is retried on the following updates.
C6_DeficitIsRetried ==
    (carTemplate /\ carLog.op = "update" /\ carLog.popBefore < maxCars)
        => \E n \in 1..Len(carLog.entries) : Len(carLog.entries[n].spawn) = 1

\* C9: in a tick where a car is not blocked and does not turn, its progress
\* grows by exactly speed * deltaTime * 0.01 and it stands at
\* start + (end - start) * progress on its lane.
C9_UnblockedAdvance ==
    \A n \in 1..Len(carLog.entries) :
        LET e == carLog.entries[n]
            street == e.before.currentStreet
        IN (~e.blocked /\ ~e.turned)
              => /\ e.after.currentStreet = street
                 /\ e.after.progress
                       = e.before.progress + (e.before.speed * carLog.dt) \div 100
                 /\ e.after.x = street.start.x
                       + ((street.end.x - street.start.x) * e.after.progress) \div 1000
                 /\ e.after.z = street.start.z
                       + ((street.end.z - street.start.z) * e.after.progress) \div 1000

\* a car at the start of an eastbound lane advanced at speed 3 for one second
C9_CarAdvancedOneSecond ==
    \E n \in 1..Len(carLog.entries) :
        LET e == carLog.entries[n] IN
        /\ ~e.blocked
        /\ ~e.turned
        /\ carLog.dt = 1
        /\ e.before.speed = 3000
        /\ e.before.progress = 0
        /\ e.after.progress = 30
        /\ e.after.x = e.before.x + 180
        /\ e.after.z = e.before.z

\* the car at index 1 was blocked in the last update and neither turned nor
\* expired in it
FirstCarBlocked ==
    /\ carLog.op = "update"
    /\ \E n \in 1..Len(carLog.entries) :
          LET e == carLog.entries[n] IN
          e.index = 1 /\ e.blocked /\ ~e.turned /\ ~e.expired

\* the car at index 1 moved forward, turned or expired in the last update
FirstCarReleased ==
    /\ carLog.op = "update"
    /\ \E n \in 1..Len(carLog.entries) :
          LET e == carLog.entries[n] IN
          e.index = 1 /\ (~e.blocked \/ e.turned \/ e.expired)

\* C7: a car blocked by a static obstacle does not stay blocked forever: with
\* update called again and again it eventually turns, moves forward or expires.
C7_BlockedCarIsReleased == FirstCarBlocked ~> FirstCarReleased

\* the spawnNPC calls of the last NonPlayableCharacter call
NpcSpawnLogs ==
    {npcLog.spawns[n] : n \in 1..Len(npcLog.spawns)}
        \cup {npcLog.entries[n].spawn[1] :
                 n \in {k \in 1..Len(npcLog.entries) : Len(npcLog.entries[k].spawn) = 1}}

\* C8: a pedestrian is spawned on, or turned onto, a lane that another live
\* pedestrian has as its lane only when no candidate lane of that choice was
\* free of live pedestrians.
C8_LaneSharedOnlyAsLastResort ==
    /\ \A sp \in NpcSpawnLogs :
          (sp.ok /\ \E n \in 1..Len(sp.others) : sp.others[n].street = sp.street)
             => \A c \in 1..Len(sp.candidates) :
                   \E n \in 1..Len(sp.others) : sp.others[n].street = sp.candidates[c]
    /\ \A k \in 1..Len(npcLog.entries) :
          LET e == npcLog.entries[k] IN
          (e.turned /\ SeqIncludes(e.others, e.after.currentStreet.id))
             => \A c \in 1..Len(e.candidates) : SeqIncludes(e.others, e.candidates[c])

\* the position keeps the minimum spacing to every pedestrian, the avoid
\* radius to the player, and lies in no padded obstacle box
ValidNpcSample(sp, pos) ==
    /\ \A n \in 1..Len(sp.others) :
          Dist2(sp.others[n].x - pos.x, sp.others[n].z - pos.z)
              >= minSpawnSpacing * minSpawnSpacing
    /\ sp.player.present
          => Dist2(sp.player.x - pos.x, sp.player.z - pos.z)
                 >= spawnAvoidPlayerRadius * spawnAvoidPlayerRadius
    /\ ~PaddedBoxHit(buildings, pos, characterRadius)

\* C10: a pedestrian spawn succeeds only at a sample that keeps the minimum
\* spacing to every pedestrian and the avoid radius to the player and collides
\* with no static obstacle, and every sample it rejected broke one of these.
C10_SpawnOnlyAtValidSample ==
    \A sp \in NpcSpawnLogs :
        /\ sp.ok => ValidNpcSample(sp, [x |-> sp.x, z |-> sp.z])
        /\ \A r \in sp.rejected : ~ValidNpcSample(sp, r)

\* C12: isValidTurn(from, to) is true exactly when the two lanes have
\* different directions, or the same direction and different lane tags, for
\* every pair of vehicle lanes and every pair of sidewalk lanes.
C12_ValidTurnIffOtherDirectionOrTag ==
    colResult.who = "isValidTurn"
        => (colResult.hit <=> \/ colQuery.from.direction # colQuery.to.direction
                              \/ colQuery.from.lane # colQuery.to.lane)

\* isValidTurn was asked about the two opposite lanes of one street
C12_AskedAboutOppositeLanes ==
    /\ colResult.who = "isValidTurn"
    /\ colResult.hit
    /\ colQuery.from.id = <<"h", 1, "left">>
    /\ colQuery.to.id = <<"h", 1, "right">>

\* s is a proper prefix of t
IsProperPrefix(s, t) == Len(s) < Len(t) /\ SubSeq(t, 1, Len(s)) = s

\* the lane is one of the lanes of the graph
InGraph(streets, lane) == \E i \in 1..Len(streets) : streets[i] = lane

\* C13: in the generated graphs no two distinct lanes share an id, and no
\* vehicle lane id equals a sidewalk lane id: for every pair of lanes of one
\* graph, two distinct lanes have distinct id strings, and the id string of a
\* vehicle lane is the id string of no sidewalk lane.
C13_LaneIdsNeverCollide ==
    /\ colQuery.from # colQuery.to
          => IdText(colQuery.from.id) # IdText(colQuery.to.id)
    /\ InGraph(carStreets, colQuery.from)
          => \A j \in 1..Len(npcStreets) :
                 IdText(colQuery.from.id) # IdText(npcStreets[j].id)

\* two lanes whose ids differ only by a suffix were compared: a vehicle lane
\* whose id is a proper prefix of a sidewalk lane's id, and the lanes of rows
\* 1 and 10
C13_IdsDifferBySuffix ==
    /\ colResult.who = "isValidTurn"
    /\ colQuery.from.id = <<"h", 1, "right">>
    /\ colQuery.to.id = <<"h", 10, "right">>
    /\ IsProperPrefix(IdText(colQuery.from.id), IdText(<<"h", 1, "right_sw">>))
    /\ InGraph(npcStreets, Lane("h", 1, "right_sw", -HalfExtent,
                                GridCoord(1) - sidewalkOffset, HalfExtent,
                                GridCoord(1) - sidewalkOffset, "horizontal"))

\* the lanes of the graph on the street of the given axis and grid index
LanesOfStreet(streets, axis, k) ==
    {i \in 1..Len(streets) : streets[i].id[1] = axis /\ streets[i].id[2] = k}

\* C16: for gridSize 40 the vehicle graph generated by init has exactly 52
\* lanes, two per street row and two per street column, the street rows and
\* columns being the 13 indices 1, 4, ..., 37, and 13 x 13 = 169
\* intersections, one per pair of a street column and a street row.
C16_FiftyTwoLanesAndAllCrossings ==
    carTemplate
        => /\ Len(carStreets) = 52
           /\ \A k \in 0..(gridSize - 1) :
                 /\ Cardinality(LanesOfStreet(carStreets, "h", k))
                        = IF k % 3 = 1 THEN 2 ELSE 0
                 /\ Cardinality(LanesOfStreet(carStreets, "v", k))
                        = IF k % 3 = 1 THEN 2 ELSE 0
           /\ Cardinality({k \in 0..(gridSize - 1) : k % 3 = 1}) = 13
           /\ Len(carIntersections) = 169
           /\ {<<carIntersections[n].x, carIntersections[n].z>> :
                   n \in 1..Len(carIntersections)}
                 = {<<GridCoord(c), GridCoord(r)>> :
                       c, r \in {k \in 0..(gridSize - 1) : k % 3 = 1}}

\* init has generated the graph and put a car on its first lane; the last
\* lane is the up lane of column 37
C16_GraphGeneratedAndUsed ==
    /\ carTemplate
    /\ Len(cars) > 0
    /\ cars[1].currentStreet = carStreets[1]
    /\ carStreets[Len(carStreets)].id = <<"v", 37, "up">>

\* C18: at the end of a tick in which a turn evaluation was made for a car,
\* with either outcome (turned or not turned), the car's turnCooldown is the
\* fixed cooldown of 2 seconds.
C18_CooldownAfterEvaluation ==
    \A n \in 1..Len(carLog.entries) :
        LET e == carLog.entries[n] IN
        e.evaluated => e.after.turnCooldown = turnCooldownTime

\* C19: at the end of every tick, every car whose isAtIntersection flag is set
\* stands within the trigger radius (8 units) of some intersection; the flag does
\* not outlive the visit, nor a turn that moved the car to the start of a lane.
C19_FlagOnlyNearIntersection ==
    carLog.op = "update"
        => \A n \in 1..Len(cars) :
              cars[n].isAtIntersection
                  => Len(NearbyIntersection(carIntersections,
                             [x |-> cars[n].x, z |-> cars[n].z])) > 0

\* C20: while a car stays within the trigger radius of one intersection, at
\* most one turn / no-turn decision is taken for it, however many ticks the
\* stay lasts: neither during a tick nor at its end has a second decision
\* been counted for the stay.
C20_OneEvaluationPerVisit ==
    /\ \A n \in 1..Len(cars) : cars[n].visitEvaluations <= 1
    /\ \A n \in 1..Len(carLog.entries) :
          carLog.entries[n].after.visitEvaluations <= 1

\* a car that had its decision at an intersection is still within that radius
\* a tick later, had checkForTurn called on it again, and got no second decision
C20_SecondCallInSameVisit ==
    \E n \in 1..Len(carLog.entries) :
        LET e == carLog.entries[n] IN
        /\ e.forced
        /\ ~e.evaluated
        /\ e.before.visitEvaluations = 1
        /\ e.after.visitEvaluations = 1
        /\ e.before.visitAt # <<>>
        /\ e.after.visitAt = e.before.visitAt
        /\ ~e.expired
        /\ e.index <= Len(cars)
        /\ cars[e.index].visitEvaluations = 1

\* the entries of the last pedestrian update whose pedestrian ended its
\* movement step with progress above 1.2
PastExpiry == {n \in 1..Len(npcLog.entries) :
                  npcLog.entries[n].after.progress > expiryProgress}

\* C11: in a pedestrian update, the pedestrians removed are exactly those whose
\* progress is above 1.2 after the movement step: each of them is gone from
\* the population when its respawn call starts, its lane id is then not in
\* occupiedStreetIds, and every other pedestrian is still in the population at
\* the end of the update, as the movement step left it.
C11_RemovedIffPastExpiry ==
    npcLog.op = "update"
        => /\ \A n \in 1..Len(npcLog.entries) :
                 LET e == npcLog.entries[n]
                     below == {k \in PastExpiry : npcLog.entries[k].index < e.index}
                 IN IF n \in PastExpiry
                    THEN /\ Len(e.spawn) = 1
                         /\ e.spawn[1].popBefore = e.popBefore - 1
                         /\ e.after.currentStreet.id \notin e.spawn[1].occupiedBefore
                    ELSE /\ Len(e.spawn) = 0
                         /\ e.index - Cardinality(below) \in 1..Len(npcs)
                         /\ npcs[e.index - Cardinality(below)] = e.after
           /\ Len(npcs) = npcLog.popBefore - Cardinality(PastExpiry)
                 + Cardinality({n \in PastExpiry : npcLog.entries[n].spawn[1].ok})

\* one pedestrian of two went past 1.2 and was removed, the other stayed
C11_OneRemovedOneKept ==
    /\ npcLog.op = "update"
    /\ Len(npcLog.entries) = 2
    /\ Cardinality(PastExpiry) = 1
    /\ \E n \in PastExpiry :
          /\ npcLog.entries[n].before.progress <= expiryProgress
          /\ npcLog.entries[n].spawn[1].ok

\* C14: every spawnNPC call ends after at most 20 position samples; a call
\* that found no valid sample used all 20, added no pedestrian and claimed no
\* lane in occupiedStreetIds, and the caller goes on: after spawnAll the
\* population and the occupancy set hold exactly what the successful calls added.
C14_FailedSpawnAddsNothing ==
    /\ \A sp \in NpcSpawnLogs :
          /\ sp.attempts \in 1..npcSpawnAttempts
          /\ ~sp.ok => /\ sp.attempts = npcSpawnAttempts
                       /\ sp.popAfter = sp.popBefore
                       /\ sp.occupiedAfter = sp.occupiedBefore
    /\ npcLog.op \in {"init", "timer"}
          => /\ Len(npcs) = npcLog.popBefore
                    + Cardinality({n \in 1..Len(npcLog.spawns) : npcLog.spawns[n].ok})
             /\ \A n \in 1..Len(npcLog.spawns) :
                   ~npcLog.spawns[n].ok
                      => \/ npcLog.spawns[n].street \notin occupiedStreetIds
                         \/ \E k \in 1..Len(npcLog.spawns) :
                               /\ npcLog.spawns[k].ok
                               /\ npcLog.spawns[k].street = npcLog.spawns[n].street

\* spawnAll placed a pedestrian and then made a call that drew 20 samples
\* without finding a valid one
C14_PlacedThenSpawnFailed ==
    /\ npcLog.op \in {"init", "timer"}
    /\ Len(npcLog.spawns) = count
    /\ npcLog.spawns[1].ok
    /\ ~npcLog.spawns[count].ok
    /\ npcLog.spawns[count].attempts = npcSpawnAttempts
    /\ Len(npcs) < count

\* the sidewalk lane with the given id
NpcStreetOf(id) == CHOOSE s \in {npcStreets[n] : n \in 1..Len(npcStreets)} : s.id = id

\* C17: every pedestrian that spawnNPC places stands on the segment of its lane
\* between start and end, its progress is within [0, 1], and when a player is
\* present its coordinate along the lane is within spawnRadius of the player's;
\* on lanes of either travel direction.
C17_SpawnedOnSegmentNearPlayer ==
    \A sp \in NpcSpawnLogs :
        LET street == NpcStreetOf(sp.street)
            horizontal == street.direction = "horizontal"
            along == IF horizontal THEN sp.x ELSE sp.z
            from == IF horizontal THEN street.start.x ELSE street.start.z
            to == IF horizontal THEN street.end.x ELSE street.end.z
            playerAlong == IF horizontal THEN sp.player.x ELSE sp.player.z
        IN sp.ok => /\ sp.progress \in 0..1000
                    /\ along \in Min(from, to)..Max(from, to)
                    /\ sp.player.present => Abs(along - playerAlong) <= spawnRadius

\* the pedestrian of entry e did not move, and its distance to the player was
\* less than the stop radius plus the length of one step at the given speed
HeldOff(e, speed) ==
    /\ e.after.mode = "idle"
    /\ e.after.speed = 0
    /\ e.after.x = e.before.x
    /\ e.after.z = e.before.z
    /\ Dist2(e.player.x - e.before.x, e.player.z - e.before.z)
          < (playerStopRadius + Quot(speed * npcLog.dt * 5, 1000))
              * (playerStopRadius + Quot(speed * npcLog.dt * 5, 1000))

\* C15: after an update with the player present, the mode and speed of each
\* pedestrian follow from its distance d to the player at the start of the
\* update: d <= 3 idle at speed 0; 3 < d <= 12 follow at walk speed;
\* 12 < d <= 90 follow at run speed; d > 90 idle at speed 0; except that a
\* follow step that would enter the stop radius leaves the pedestrian idle where
\* it stood. The mode is always idle or follow and an idle pedestrian has speed 0.
C15_ModeAndSpeedFromDistance ==
    /\ \A n \in 1..Len(npcs) :
          /\ npcs[n].mode \in {"idle", "follow"}
          /\ npcs[n].mode = "idle" => npcs[n].speed = 0
    /\ \A n \in 1..Len(npcLog.entries) :
          LET e == npcLog.entries[n]
              d2 == Dist2(e.player.x - e.before.x, e.player.z - e.before.z)
          IN e.player.present
               => IF d2 <= playerStopRadius * playerStopRadius
                  THEN e.after.mode = "idle" /\ e.after.speed = 0
                  ELSE IF d2 <= runRadius * runRadius
                  THEN \/ e.after.mode = "follow" /\ e.after.speed = walkSpeed
                       \/ HeldOff(e, walkSpeed)
                  ELSE IF d2 <= stopFollowRadius * stopFollowRadius
                  THEN \/ e.after.mode = "follow" /\ e.after.speed = runSpeed
                       \/ HeldOff(e, runSpeed)
                  ELSE e.after.mode = "idle" /\ e.after.speed = 0

\* a pedestrian 4 units from the player is left idle where it stood by a walk
\* step that would have taken it inside the stop radius
C15_WalkStepHeldOff ==
    \E n \in 1..Len(npcLog.entries) :
        LET e == npcLog.entries[n]
            d2 == Dist2(e.player.x - e.before.x, e.player.z - e.before.z)
        IN /\ e.player.present
           /\ d2 > playerStopRadius * playerStopRadius
           /\ d2 <= runRadius * runRadius
           /\ HeldOff(e, walkSpeed)

\* the cooldown of the car of entry e once update has run it down (car.js:614-617)
CooldownInTick(e) ==
    IF e.before.turnCooldown > 0 THEN e.before.turnCooldown - carLog.dt
                                 ELSE e.before.turnCooldown

\* where the car of entry e stood when checkForTurn was called: where it was
\* when its advance was blocked, at the candidate position otherwise
PositionAtCheck(e) ==
    IF e.blocked
    THEN [x |-> e.before.x, z |-> e.before.z]
    ELSE [x |-> LaneX(e.before.currentStreet, e.before.progress + e.step),
          z |-> LaneZ(e.before.currentStreet, e.before.progress + e.step)]

\* C21: a car turns only in a tick in which its turnCooldown has run down to 0
\* or less and it stands within the trigger radius of some intersection, and,
\* unless its advance was blocked in that tick, its progress is strictly
\* between 0.4 and 0.6.
C21_TurnOnlyWhenTriggered ==
    \A n \in 1..Len(carLog.entries) :
        LET e == carLog.entries[n] IN
        e.turned
            => /\ CooldownInTick(e) <= 0
               /\ Len(NearbyIntersection(carIntersections, PositionAtCheck(e))) > 0
               /\ ~e.blocked => /\ e.before.progress + e.step > windowLow
                                /\ e.before.progress + e.step < windowHigh

\* a car turned from the intersection window, its advance not blocked
C21_TurnedInWindow ==
    \E n \in 1..Len(carLog.entries) :
        LET e == carLog.entries[n] IN
        /\ e.turned
        /\ ~e.blocked
        /\ e.before.progress + e.step > windowLow
        /\ e.after.currentStreet.id # e.before.currentStreet.id

\* where the car of entry n of the last update is in cars at the end of the
\* update: each car of lower index that expired has moved it down by one
FinalIndex(n) ==
    carLog.entries[n].index
        - Cardinality({k \in 1..Len(carLog.entries) :
                          /\ carLog.entries[k].expired
                          /\ carLog.entries[k].index < carLog.entries[n].index})

\* C24: when the candidate position of a car collides with a building and the
\* car does not turn in that tick, its position, progress and lane at the end of
\* the tick are those of the start of the tick.
C24_BlockedCarStaysPut ==
    \A n \in 1..Len(carLog.entries) :
        LET e == carLog.entries[n] IN
        (e.blocked /\ ~e.turned)
            => /\ e.after.x = e.before.x
               /\ e.after.z = e.before.z
               /\ e.after.progress = e.before.progress
               /\ e.after.currentStreet = e.before.currentStreet
               /\ ~e.expired
               /\ FinalIndex(n) \in 1..Len(cars)
               /\ cars[FinalIndex(n)].x = e.before.x
               /\ cars[FinalIndex(n)].z = e.before.z
               /\ cars[FinalIndex(n)].progress = e.before.progress
               /\ cars[FinalIndex(n)].currentStreet = e.before.currentStreet

\* a car that had advanced along its lane was blocked, had its forced turn
\* evaluation, and did not turn
C24_BlockedAfterAdvancing ==
    \E n \in 1..Len(carLog.entries) :
        LET e == carLog.entries[n] IN
        /\ e.blocked
        /\ e.forced
        /\ ~e.turned
        /\ e.step > 0
        /\ e.before.progress > 0

\* C25: whenever the advance of a car is blocked by a collision, checkForTurn
\* is called for it in that same tick, wherever on its lane the car is.
C25_BlockedAdvanceForcesEvaluation ==
    \A n \in 1..Len(carLog.entries) :
        carLog.entries[n].blocked => carLog.entries[n].forced

\* the heading h, as <<sin, cos>>, plus k quarter turns
RECURSIVE QuarterTurns(_, _)
QuarterTurns(h, k) == IF k = 0 THEN h ELSE QuarterTurns(<<h[2], -h[1]>>, k - 1)

\* Math.atan2(end.x - start.x, end.z - start.z) of a lane
LaneHeading(street) ==
    Atan2Axis(street.end.x - street.start.x, street.end.z - street.start.z)

\* C22: the pedestrians that spawnAll has just placed all face along the
\* start-to-end vector of their lane, up to one fixed model offset that is the
\* same for horizontal and vertical lanes of both travel directions.
C22_HeadingAlongLane ==
    npcLog.op \in {"init", "timer"}
        => \E k \in 0..3 :
              \A n \in 1..Len(npcs) :
                  npcs[n].rotation = QuarterTurns(LaneHeading(npcs[n].currentStreet), k)

\* the ids of the candidate lanes of a spawn
CandidateIds(sp) == {sp.candidates[n] : n \in 1..Len(sp.candidates)}

\* the lanes a spawn has to draw from: the first non-empty one of the three tiers
FirstNonEmptyTier(sp) ==
    IF CandidateIds(sp) \ (sp.usedBefore \cup sp.occupiedBefore) # {}
    THEN CandidateIds(sp) \ (sp.usedBefore \cup sp.occupiedBefore)
    ELSE IF CandidateIds(sp) \ sp.occupiedBefore # {}
         THEN CandidateIds(sp) \ sp.occupiedBefore
         ELSE CandidateIds(sp)

\* C23: every pedestrian spawn selects a lane, and it is one of the first
\* non-empty tier: nearby lanes neither used nor occupied, else nearby lanes
\* not occupied, else any nearby lane with the used set cleared first; an
\* occupied lane is selected only when every nearby lane is occupied.
C23_LaneFromFirstNonEmptyTier ==
    \A sp \in NpcSpawnLogs :
        /\ sp.street \in FirstNonEmptyTier(sp)
        /\ sp.street \in sp.occupiedBefore => CandidateIds(sp) \subseteq sp.occupiedBefore
        /\ CandidateIds(sp) \subseteq sp.occupiedBefore => sp.usedAfter = {sp.street}

\* a spawn had only occupied lanes to draw from and reused one of them
C23_SpawnedOnOccupiedLane ==
    \E sp \in NpcSpawnLogs :
        /\ sp.street \in sp.occupiedBefore
        /\ sp.usedBefore # {}

\* C27: after spawnAll and at the end of every update, the lane of every live
\* pedestrian is in occupiedStreetIds, also when another pedestrian of the
\* same lane has turned away or expired.
C27_LiveLanesAreOccupied ==
    npcLog.op # "none"
        => \A n \in 1..Len(npcs) : npcs[n].currentStreet.id \in occupiedStreetIds

\* C28: a pedestrian spawn call that places nobody leaves the bookkeeping as
\* it found it: usedSpawnStreetIds, occupiedStreetIds and the population are
\* the same after the call as before.
C28_FailedSpawnChangesNothing ==
    \A sp \in NpcSpawnLogs :
        ~sp.ok => /\ sp.usedAfter = sp.usedBefore
                  /\ sp.occupiedAfter = sp.occupiedBefore
                  /\ sp.popAfter = sp.popBefore

\* the pedestrians as they stood when the last update began
StartOfTick ==
    [n \in 1..Len(npcLog.entries) |->
        npcLog.entries[CHOOSE k \in 1..Len(npcLog.entries) :
                           npcLog.entries[k].index = n].before]

\* C26: in an update every following pedestrian ends where the follow step
\* puts it when the separation and overlap checks read the positions all the
\* others had at the start of the tick, so that the order in which the
\* pedestrians are visited makes no difference.
C26_StepsFromOneSnapshot ==
    (/\ npcLog.op = "update"
     /\ \A k \in 1..Len(npcLog.entries) : ~npcLog.entries[k].expired)
        => \A k \in 1..Len(npcLog.entries) :
              LET e == npcLog.entries[k]
              IN e.behaviour = "follow"
                    => e.after = NpcFollow(StartOfTick, e.index,
                                           NpcBehaviour(e.before, e.player),
                                           e.player, npcLog.dt)

\* the entries of the update log whose car expired and was replaced
Replaced(log) ==
    SelectSeq(log.entries, LAMBDA e : Len(e.spawn) = 1 /\ e.spawn[1].ok)

\* C30: one update call advances every car that was in the population when the
\* call began exactly once, also when cars expire and are replaced during the
\* call, and a car spawned during the call is left as spawnCar placed it.
C30_EachCarAdvancedOnce ==
    [][ticks' # ticks
         => /\ Len(carLog'.entries) = Len(cars)
            /\ \A n \in 1..Len(cars) :
                  \E k \in 1..Len(carLog'.entries) :
                      LET e == carLog'.entries[k]
                      IN /\ e.index = n
                         /\ e.before = cars[n]
                         /\ (~e.blocked /\ ~e.turned)
                               => e.after.progress = cars[n].progress + e.step
            /\ \A m \in 1..Len(Replaced(carLog')) :
                  LET sp == Replaced(carLog')[m].spawn[1]
                      c == cars'[Len(cars') - Len(Replaced(carLog')) + m]
                  IN /\ c.currentStreet.id = sp.street
                     /\ c.x = sp.x
                     /\ c.z = sp.z
                     /\ c.turnCooldown = 0]_vars

\* the last car of two expired and was replaced before the first one's turn came
C30_ReplacedBeforeOthersAdvanced ==
    /\ carLog.op = "update"
    /\ carLog.popBefore = 2
    /\ Len(carLog.entries) = 2
    /\ carLog.entries[1].index = 2
    /\ carLog.entries[1].expired
    /\ Len(carLog.entries[1].spawn) = 1
    /\ carLog.entries[1].spawn[1].ok
    /\ carLog.entries[2].after.progress > carLog.entries[2].before.progress

\* C29: whenever an update moves the player, the position it moves to is
\* outside the padded footprint of every building, wherever the building is
\* centred, and at least npcCollisionRadius away from every pedestrian; a
\* player that was outside all footprints is therefore still outside.
C29_MoveCommittedOnlyWhenClear ==
    [][(playerPos.present /\ playerPos' # playerPos)
          => /\ ~PaddedBoxHit(buildings, playerPos', characterRadius)
             /\ \A n \in 1..Len(npcs) :
                   Dist2(npcs[n].x - playerPos'.x, npcs[n].z - playerPos'.z)
                       >= npcCollisionRadius * npcCollisionRadius]_vars

====
